---- MODULE Spec2Model ----
(***************************************************************************)
(* A state-machine model of desktop_clock.py: the TimerManager (countdown  *)
(* and stopwatch), the ClockWidget's display-mode arbitration, geometry    *)
(* computation, setters, paint, themes and drag, and the SettingsManager.  *)
(*                                                                         *)
(* Qt is the environment.  A QTimer is a boolean (active or not) and its   *)
(* timeout is an action enabled while it is active.  Signals are delivered *)
(* synchronously to their slots (direct connections in one thread), so a   *)
(* handler is one atomic action; `calls` records, in order, what the last  *)
(* handler did: the QTimer start/stop calls, the signals it emitted and    *)
(* the widget slot's update_geometry() / update() calls.                   *)
(***************************************************************************)
EXTENDS Integers, Sequences, FiniteSets, TLC

VARIABLES
    \* TimerManager (src lines 136-149)
    countdown_seconds, stopwatch_seconds, countdown_running, stopwatch_running,
    countdown_timer, stopwatch_timer,
    \* ClockWidget configuration (src lines 239-251)
    font_family, base_font_size, show_date, show_week, show_seconds,
    \* the environment's date: the length of the locale's weekday name
    week_name_len,
    \* the widget's fixed size (setFixedSize) and the pending repaint request
    \* (update())
    win_width, win_height, update_requested,
    \* the theme, the animation timer (active or not), the gradient's offset,
    \* the cached gradient and the size it was built for, and the
    \* QTimer.singleShot callbacks of set_theme that have not fired yet
    theme_name, animation_timer, gradient_offset, cached_gradient, cached_size,
    pending_starts,
    \* the opacity of the text, the "fixed position" switch, the offset
    \* captured by the press that began a drag (drag_position), the window's
    \* origin (pos()) and the pointer's global position at the last mouse
    \* event
    font_opacity, is_fixed, drag_position, window_pos, global_pos,
    \* the settings store (QSettings) and the outcome of the last
    \* SettingsManager.get
    qsettings, got,
    \* history: the last handler and the calls it made
    lastOp, calls

timerVars  == <<countdown_seconds, stopwatch_seconds, countdown_running,
                stopwatch_running, countdown_timer, stopwatch_timer>>
countdownVars == <<countdown_seconds, countdown_running, countdown_timer>>
stopwatchVars == <<stopwatch_seconds, stopwatch_running, stopwatch_timer>>
configVars == <<font_family, base_font_size, show_date, show_week, show_seconds>>
envVars    == <<week_name_len>>
sizeVars   == <<win_width, win_height>>
themeVars  == <<theme_name, animation_timer, gradient_offset, cached_gradient,
                cached_size, pending_starts>>
surfaceVars == <<font_opacity, is_fixed, drag_position, window_pos, global_pos>>
storeVars  == <<qsettings, got>>
vars == <<timerVars, configVars, envVars, sizeVars, update_requested,
          themeVars, surfaceVars, storeVars, lastOp, calls>>

----------------------------------------------------------------------------
(* Program constants *)

DEFAULT_BASE_SIZE == 80
DEFAULT_COUNTDOWN_MINUTES == 25
DEFAULT_FONT_FAMILY == "Arial"
DEFAULT_SHOW_DATE == TRUE
DEFAULT_SHOW_WEEK == TRUE
DEFAULT_SHOW_SECONDS == FALSE

(* Bounds of the model *)

\* the largest minutes argument tried
MaxMinutes == 26
\* stopwatch ticks are explored up to this many elapsed seconds
MaxStopwatch == 2
\* countdown ticks are explored in full while at most FullTickBelow seconds
\* remain, and from the largest input down to MaxTickRun seconds below the
\* default duration
FullTickBelow == 60
MaxTickRun == 2

\* "no minutes argument" (minutes=None)
NoArg == -1
MinuteInputs == {0, 1, 10, DEFAULT_COUNTDOWN_MINUTES, MaxMinutes}
MinuteArgs == MinuteInputs \cup {NoArg}

----------------------------------------------------------------------------
(* The call log *)

Call(name) == [name |-> name, n |-> 0, b |-> FALSE]
EmitInt(sig, n) == [name |-> sig, n |-> n, b |-> FALSE]
EmitBool(sig, b) == [name |-> sig, n |-> 0, b |-> b]
EmitNone(sig) == [name |-> sig, n |-> 0, b |-> FALSE]

\* ClockWidget._on_timer_changed, the slot of all five TimerManager signals
on_timer_changed == <<Call("update_geometry"), Call("update")>>

Signals == {"countdown_updated", "stopwatch_updated", "countdown_finished",
            "countdown_state_changed", "stopwatch_state_changed"}

RECURSIVE CountCalls(_, _)
CountCalls(log, name) ==
    IF log = <<>> THEN 0
    ELSE (IF Head(log).name = name THEN 1 ELSE 0) + CountCalls(Tail(log), name)

RECURSIVE Emitted(_)
\* the signals of a call log, in order
Emitted(log) ==
    IF log = <<>> THEN <<>>
    ELSE (IF Head(log).name \in Signals THEN <<Head(log)>> ELSE <<>>)
         \o Emitted(Tail(log))

Op(name) == [op |-> name, arg |-> NoArg]
OpArg(name, arg) == [op |-> name, arg |-> arg]

----------------------------------------------------------------------------
(* Formatting: f"{m:02d}:{s:02d}" and f"{h:02d}:{m:02d}:{s:02d}" *)

DigitChar == <<"0", "1", "2", "3", "4", "5", "6", "7", "8", "9">>

RECURSIVE Decimal(_)
Decimal(n) == IF n < 10 THEN <<DigitChar[n + 1]>>
              ELSE Decimal(n \div 10) \o <<DigitChar[(n % 10) + 1]>>

\* {n:02d}: at least two digits, zero-padded
Pad2(n) == IF n < 10 THEN <<"0">> \o Decimal(n) ELSE Decimal(n)

get_countdown_time_str ==
    LET secs == IF countdown_seconds < 0 THEN 0 ELSE countdown_seconds
    IN  Pad2(secs \div 60) \o <<":">> \o Pad2(secs % 60)

\* the stopwatch string with the minutes of the whole time, not of the hour
get_stopwatch_time_str_total_minutes ==
    Pad2(stopwatch_seconds \div 3600) \o <<":">>
    \o Pad2(stopwatch_seconds \div 60) \o <<":">>
    \o Pad2(stopwatch_seconds % 60)

get_stopwatch_time_str ==
    Pad2(stopwatch_seconds \div 3600) \o <<":">>
    \o Pad2((stopwatch_seconds % 3600) \div 60) \o <<":">>
    \o Pad2(stopwatch_seconds % 60)

----------------------------------------------------------------------------
(* Display-mode arbitration *)

is_timer_active_running_only ==
    countdown_running \/ (stopwatch_running \/ stopwatch_seconds > 0)

\* the test that looks at the stopwatch only
is_timer_active_stopwatch_only ==
    stopwatch_running \/ stopwatch_seconds > 0

is_timer_active ==
    LET countdown_active ==
            countdown_running
            \/ countdown_seconds # DEFAULT_COUNTDOWN_MINUTES * 60
        stopwatch_active ==
            stopwatch_running \/ stopwatch_seconds > 0
    IN  countdown_active \/ stopwatch_active

DisplayMode == IF is_timer_active THEN "TimerExclusive" ELSE "Clock"

\* the texts; "#" is a digit of the wall clock or the date, "a" a letter of
\* the weekday name, HOURGLASS and STOPWATCH the two marker glyphs
get_time_text ==
    IF show_seconds THEN <<"#", "#", ":", "#", "#", ":", "#", "#">>
    ELSE <<"#", "#", ":", "#", "#">>

get_date_text == <<"#", "#", "#", "#", "-", "#", "#", "-", "#", "#">>

get_week_text == [i \in 1..week_name_len |-> "a"]

\* the timer text with the stopwatch tested first
get_timer_text_stopwatch_first ==
    IF is_timer_active
    THEN IF stopwatch_running \/ stopwatch_seconds > 0
         THEN <<"STOPWATCH", " ">> \o get_stopwatch_time_str
         ELSE <<"HOURGLASS", " ">> \o get_countdown_time_str
    ELSE <<>>

get_timer_text ==
    IF is_timer_active
    THEN IF countdown_seconds # DEFAULT_COUNTDOWN_MINUTES * 60 \/ countdown_running
         THEN <<"HOURGLASS", " ">> \o get_countdown_time_str
         ELSE <<"STOPWATCH", " ">> \o get_stopwatch_time_str
    ELSE <<>>

----------------------------------------------------------------------------
(* Font metrics (QFontMetrics of QFont(family, size)): the advance of a    *)
(* character is a share of the point size that depends on the family and   *)
(* the character's class, the line height a share of the point size.       *)

Families == {"Arial", "Courier New"}

\* hundredths of the point size, in pixels at 96 dpi
CharShare(family, c) ==
    IF family = "Courier New" THEN 80
    ELSE CASE c \in {"HOURGLASS", "STOPWATCH"} -> 133
           [] c \in {":", " "} -> 37
           [] c = "-" -> 44
           [] c = "a" -> 68
           [] OTHER -> 74

RECURSIVE SumAdvance(_, _, _, _)
\* the advances of the first i characters of text
SumAdvance(family, size, text, i) ==
    IF i = 0 THEN 0
    ELSE (size * CharShare(family, text[i])) \div 100
         + SumAdvance(family, size, text, i - 1)

\* (the text is bound once, as t, so that it is evaluated once)
horizontalAdvance(family, size, text) ==
    CHOOSE w \in {SumAdvance(family, size, t, Len(t)) : t \in {text}} : TRUE

fm_height(family, size) ==
    (size * (IF family = "Courier New" THEN 151 ELSE 153)) \div 100

----------------------------------------------------------------------------
(* update_geometry: the size handed to setFixedSize *)

\* int(base_font_size * 0.45), int(base_font_size * 0.8), int(... * 0.2)
small_font_size == (base_font_size * 45) \div 100
Max2(a, b) == IF a >= b THEN a ELSE b
time_margin == Max2((base_font_size * 8) \div 10, 40)
small_margin == (base_font_size * 2) \div 10

timer_width ==
    horizontalAdvance(font_family, base_font_size, get_timer_text) + 20

timer_height == fm_height(font_family, base_font_size) + 8

clock_width ==
    LET w_time == horizontalAdvance(font_family, base_font_size, get_time_text)
                  + time_margin
        w_date == IF show_date
                  THEN horizontalAdvance(font_family, small_font_size, get_date_text)
                  ELSE 0
        w_week == IF show_week
                  THEN horizontalAdvance(font_family, small_font_size, get_week_text)
                  ELSE 0
    IN  Max2(Max2(w_time, w_date), w_week) + 20

clock_height_no_gap ==
    LET h_time == fm_height(font_family, base_font_size)
        h_small == fm_height(font_family, small_font_size)
    IN  h_time + (IF show_date THEN h_small ELSE 0)
        + (IF show_week THEN h_small ELSE 0) + 6

clock_height ==
    LET h_time == fm_height(font_family, base_font_size)
        h_small == fm_height(font_family, small_font_size)
        h1 == h_time
        h2 == IF show_date THEN h1 + 2 + h_small ELSE h1
        h3 == IF show_week THEN h2 + 2 + h_small ELSE h2
    IN  h3 + 6

update_geometry ==
    IF is_timer_active THEN <<timer_width, timer_height>>
    ELSE <<clock_width, clock_height>>

\* update_geometry() followed by update(): the widget slot _on_timer_changed
GeometryAndUpdate ==
    LET size == update_geometry'
    IN  /\ win_width' = size[1]
        /\ win_height' = size[2]
        /\ update_requested' = TRUE

\* update_geometry() alone: a resize makes Qt repaint, the same size does not
GeometryOnly ==
    LET size == update_geometry'
    IN  /\ win_width' = size[1]
        /\ win_height' = size[2]
        /\ update_requested' = (update_requested \/ size # <<win_width, win_height>>)

NoWidgetCall == UNCHANGED <<sizeVars, update_requested>>

----------------------------------------------------------------------------
(* TimerManager *)

\* start_countdown with one of its checks or calls changed (used to test
\* that the properties below depend on them)
start_countdown_changed(minutes, check_running, check_positive, start_timer) ==
    LET secs == IF minutes # NoArg THEN minutes * 60 ELSE countdown_seconds
        starts == (check_running => ~countdown_running)
                  /\ (IF check_positive THEN secs > 0 ELSE secs >= 0)
    IN  /\ countdown_seconds' = secs
        /\ countdown_running' = IF starts THEN TRUE ELSE countdown_running
        /\ countdown_timer' = IF starts /\ start_timer THEN TRUE ELSE countdown_timer
        /\ calls' = IF starts
                    THEN (IF start_timer THEN <<Call("countdown_timer.start")>> ELSE <<>>)
                         \o <<EmitBool("countdown_state_changed", TRUE)>>
                         \o on_timer_changed
                    ELSE <<>>
        /\ lastOp' = OpArg("start_countdown", minutes)
        /\ UNCHANGED <<stopwatchVars, configVars, envVars, themeVars,
                       surfaceVars, storeVars>>
        /\ IF starts THEN GeometryAndUpdate ELSE NoWidgetCall

start_countdown_timer_not_started(minutes) ==
    start_countdown_changed(minutes, TRUE, TRUE, FALSE)

start_countdown_restarts(minutes) ==
    start_countdown_changed(minutes, FALSE, TRUE, TRUE)

start_countdown_from_zero(minutes) ==
    start_countdown_changed(minutes, TRUE, FALSE, TRUE)

start_countdown(minutes) ==
    LET secs == IF minutes # NoArg THEN minutes * 60 ELSE countdown_seconds
        starts == ~countdown_running /\ secs > 0
    IN  /\ countdown_seconds' = secs
        /\ countdown_running' = IF starts THEN TRUE ELSE countdown_running
        /\ countdown_timer' = IF starts THEN TRUE ELSE countdown_timer
        /\ calls' = IF starts
                    THEN <<Call("countdown_timer.start"),
                           EmitBool("countdown_state_changed", TRUE)>>
                         \o on_timer_changed
                    ELSE <<>>
        /\ lastOp' = OpArg("start_countdown", minutes)
        /\ UNCHANGED <<stopwatchVars, configVars, envVars, themeVars,
                       surfaceVars, storeVars>>
        /\ IF starts THEN GeometryAndUpdate ELSE NoWidgetCall

\* pause_countdown that leaves the tick timer scheduled
pause_countdown_timer_left_running ==
    /\ countdown_running' = FALSE
    /\ countdown_timer' = countdown_timer
    /\ calls' = <<EmitBool("countdown_state_changed", FALSE)>> \o on_timer_changed
    /\ lastOp' = Op("pause_countdown")
    /\ UNCHANGED <<countdown_seconds, stopwatchVars, configVars, envVars, themeVars,
                   surfaceVars, storeVars>>
    /\ GeometryAndUpdate

pause_countdown ==
    /\ countdown_running' = FALSE
    /\ countdown_timer' = FALSE
    /\ calls' = <<Call("countdown_timer.stop"),
                  EmitBool("countdown_state_changed", FALSE)>> \o on_timer_changed
    /\ lastOp' = Op("pause_countdown")
    /\ UNCHANGED <<countdown_seconds, stopwatchVars, configVars, envVars, themeVars,
                   surfaceVars, storeVars>>
    /\ GeometryAndUpdate

reset_countdown(minutes) ==
    LET mins == IF minutes = NoArg \/ minutes = 0
                THEN DEFAULT_COUNTDOWN_MINUTES ELSE minutes
    IN  /\ countdown_running' = FALSE
        /\ countdown_timer' = FALSE
        /\ countdown_seconds' = mins * 60
        /\ calls' = <<Call("countdown_timer.stop"),
                      EmitBool("countdown_state_changed", FALSE)>> \o on_timer_changed
                    \o <<EmitInt("countdown_updated", mins * 60)>> \o on_timer_changed
        /\ lastOp' = OpArg("reset_countdown", minutes)
        /\ UNCHANGED <<stopwatchVars, configVars, envVars, themeVars,
                       surfaceVars, storeVars>>
        /\ GeometryAndUpdate

\* set_countdown_minutes that emits whether or not the countdown runs
set_countdown_minutes_always_emits(minutes) ==
    /\ countdown_seconds' = minutes * 60
    /\ calls' = <<EmitInt("countdown_updated", minutes * 60)>> \o on_timer_changed
    /\ lastOp' = OpArg("set_countdown_minutes", minutes)
    /\ UNCHANGED <<countdown_running, countdown_timer, stopwatchVars, configVars,
                   envVars, themeVars,
                   surfaceVars, storeVars>>
    /\ GeometryAndUpdate

set_countdown_minutes(minutes) ==
    /\ countdown_seconds' = minutes * 60
    /\ calls' = IF ~countdown_running
                THEN <<EmitInt("countdown_updated", minutes * 60)>> \o on_timer_changed
                ELSE <<>>
    /\ lastOp' = OpArg("set_countdown_minutes", minutes)
    /\ UNCHANGED <<countdown_running, countdown_timer, stopwatchVars, configVars,
                   envVars, themeVars,
                   surfaceVars, storeVars>>
    /\ IF ~countdown_running THEN GeometryAndUpdate ELSE NoWidgetCall

\* start_stopwatch without the test of stopwatch_running
start_stopwatch_unguarded ==
    /\ stopwatch_running' = TRUE
    /\ stopwatch_timer' = TRUE
    /\ calls' = <<Call("stopwatch_timer.start"),
                  EmitBool("stopwatch_state_changed", TRUE)>> \o on_timer_changed
    /\ lastOp' = Op("start_stopwatch")
    /\ UNCHANGED <<stopwatch_seconds, countdownVars, configVars, envVars, themeVars,
                   surfaceVars, storeVars>>
    /\ GeometryAndUpdate

start_stopwatch ==
    /\ IF ~stopwatch_running
       THEN /\ stopwatch_running' = TRUE
            /\ stopwatch_timer' = TRUE
            /\ calls' = <<Call("stopwatch_timer.start"),
                          EmitBool("stopwatch_state_changed", TRUE)>>
                        \o on_timer_changed
       ELSE /\ UNCHANGED <<stopwatch_running, stopwatch_timer>>
            /\ calls' = <<>>
    /\ lastOp' = Op("start_stopwatch")
    /\ UNCHANGED <<stopwatch_seconds, countdownVars, configVars, envVars, themeVars,
                   surfaceVars, storeVars>>
    /\ IF ~stopwatch_running THEN GeometryAndUpdate ELSE NoWidgetCall

\* pause_stopwatch that pauses the countdown as well
pause_stopwatch_pauses_both ==
    /\ stopwatch_running' = FALSE
    /\ stopwatch_timer' = FALSE
    /\ countdown_running' = FALSE
    /\ countdown_timer' = FALSE
    /\ calls' = <<Call("stopwatch_timer.stop"),
                  EmitBool("stopwatch_state_changed", FALSE)>> \o on_timer_changed
    /\ lastOp' = Op("pause_stopwatch")
    /\ UNCHANGED <<stopwatch_seconds, countdown_seconds, configVars, envVars,
                   themeVars,
                   surfaceVars, storeVars>>
    /\ GeometryAndUpdate

pause_stopwatch ==
    /\ stopwatch_running' = FALSE
    /\ stopwatch_timer' = FALSE
    /\ calls' = <<Call("stopwatch_timer.stop"),
                  EmitBool("stopwatch_state_changed", FALSE)>> \o on_timer_changed
    /\ lastOp' = Op("pause_stopwatch")
    /\ UNCHANGED <<stopwatch_seconds, countdownVars, configVars, envVars, themeVars,
                   surfaceVars, storeVars>>
    /\ GeometryAndUpdate

reset_stopwatch ==
    /\ stopwatch_running' = FALSE
    /\ stopwatch_timer' = FALSE
    /\ stopwatch_seconds' = 0
    /\ calls' = <<Call("stopwatch_timer.stop"),
                  EmitBool("stopwatch_state_changed", FALSE)>> \o on_timer_changed
                \o <<EmitInt("stopwatch_updated", 0)>> \o on_timer_changed
    /\ lastOp' = Op("reset_stopwatch")
    /\ UNCHANGED <<countdownVars, configVars, envVars, themeVars,
                   surfaceVars, storeVars>>
    /\ GeometryAndUpdate

\* the tick without the pause at zero
on_countdown_tick_no_pause ==
    /\ countdown_timer
    /\ countdown_seconds' = IF countdown_seconds > 0 THEN countdown_seconds - 1 ELSE 0
    /\ calls' = IF countdown_seconds > 0
                THEN <<EmitInt("countdown_updated", countdown_seconds - 1)>>
                     \o on_timer_changed
                     \o (IF countdown_seconds = 1
                         THEN <<EmitNone("countdown_finished")>> \o on_timer_changed
                         ELSE <<>>)
                ELSE <<>>
    /\ lastOp' = Op("on_countdown_tick")
    /\ UNCHANGED <<countdown_running, countdown_timer, stopwatchVars, configVars,
                   envVars, themeVars,
                   surfaceVars, storeVars>>
    /\ GeometryAndUpdate

\* the tick that decrements whatever the remaining seconds are
on_countdown_tick_always_decrements ==
    /\ countdown_timer
    /\ countdown_seconds' = countdown_seconds - 1
    /\ IF countdown_seconds - 1 <= 0
       THEN /\ countdown_running' = FALSE
            /\ countdown_timer' = FALSE
            /\ calls' = <<EmitInt("countdown_updated", countdown_seconds - 1)>>
                        \o on_timer_changed
                        \o <<EmitNone("countdown_finished")>> \o on_timer_changed
                        \o <<Call("countdown_timer.stop"),
                             EmitBool("countdown_state_changed", FALSE)>>
                        \o on_timer_changed
       ELSE /\ UNCHANGED <<countdown_running, countdown_timer>>
            /\ calls' = <<EmitInt("countdown_updated", countdown_seconds - 1)>>
                        \o on_timer_changed
    /\ lastOp' = Op("on_countdown_tick")
    /\ UNCHANGED <<stopwatchVars, configVars, envVars, themeVars,
                   surfaceVars, storeVars>>
    /\ GeometryAndUpdate

\* the tick that pauses before it announces the end
on_countdown_tick_pause_first ==
    /\ countdown_timer
    /\ IF countdown_seconds > 0
       THEN /\ countdown_seconds' = countdown_seconds - 1
            /\ IF countdown_seconds - 1 = 0
               THEN /\ countdown_running' = FALSE
                    /\ countdown_timer' = FALSE
                    /\ calls' = <<EmitInt("countdown_updated", 0)>> \o on_timer_changed
                                \o <<Call("countdown_timer.stop"),
                                     EmitBool("countdown_state_changed", FALSE)>>
                                \o on_timer_changed
                                \o <<EmitNone("countdown_finished")>> \o on_timer_changed
               ELSE /\ UNCHANGED <<countdown_running, countdown_timer>>
                    /\ calls' = <<EmitInt("countdown_updated", countdown_seconds - 1)>>
                                \o on_timer_changed
       ELSE /\ countdown_seconds' = countdown_seconds
            /\ countdown_running' = FALSE
            /\ countdown_timer' = FALSE
            /\ calls' = <<Call("countdown_timer.stop"),
                          EmitBool("countdown_state_changed", FALSE)>>
                        \o on_timer_changed
    /\ lastOp' = Op("on_countdown_tick")
    /\ UNCHANGED <<stopwatchVars, configVars, envVars, themeVars,
                   surfaceVars, storeVars>>
    /\ GeometryAndUpdate

\* the tick that never takes the last second off
on_countdown_tick_holds_last_second ==
    /\ countdown_timer
    /\ countdown_seconds' = IF countdown_seconds > 1 THEN countdown_seconds - 1
                            ELSE countdown_seconds
    /\ IF countdown_seconds = 0
       THEN /\ countdown_running' = FALSE
            /\ countdown_timer' = FALSE
            /\ calls' = <<Call("countdown_timer.stop"),
                          EmitBool("countdown_state_changed", FALSE)>>
                        \o on_timer_changed
       ELSE /\ UNCHANGED <<countdown_running, countdown_timer>>
            /\ calls' = <<EmitInt("countdown_updated", countdown_seconds')>>
                        \o on_timer_changed
    /\ lastOp' = Op("on_countdown_tick")
    /\ UNCHANGED <<stopwatchVars, configVars, envVars, themeVars,
                   surfaceVars, storeVars>>
    /\ GeometryAndUpdate

\* the timeout of countdown_timer
on_countdown_tick ==
    /\ countdown_timer
    /\ IF countdown_seconds > 0
       THEN /\ countdown_seconds' = countdown_seconds - 1
            /\ IF countdown_seconds - 1 = 0
               THEN /\ countdown_running' = FALSE
                    /\ countdown_timer' = FALSE
                    /\ calls' = <<EmitInt("countdown_updated", 0)>> \o on_timer_changed
                                \o <<EmitNone("countdown_finished")>> \o on_timer_changed
                                \o <<Call("countdown_timer.stop"),
                                     EmitBool("countdown_state_changed", FALSE)>>
                                \o on_timer_changed
               ELSE /\ UNCHANGED <<countdown_running, countdown_timer>>
                    /\ calls' = <<EmitInt("countdown_updated", countdown_seconds - 1)>>
                                \o on_timer_changed
       ELSE /\ countdown_seconds' = countdown_seconds
            /\ countdown_running' = FALSE
            /\ countdown_timer' = FALSE
            /\ calls' = <<Call("countdown_timer.stop"),
                          EmitBool("countdown_state_changed", FALSE)>>
                        \o on_timer_changed
    /\ lastOp' = Op("on_countdown_tick")
    /\ UNCHANGED <<stopwatchVars, configVars, envVars, themeVars,
                   surfaceVars, storeVars>>
    /\ GeometryAndUpdate

\* the timeout of stopwatch_timer
on_stopwatch_tick ==
    /\ stopwatch_timer
    /\ stopwatch_seconds' = stopwatch_seconds + 1
    /\ calls' = <<EmitInt("stopwatch_updated", stopwatch_seconds + 1)>>
                \o on_timer_changed
    /\ lastOp' = Op("on_stopwatch_tick")
    /\ UNCHANGED <<stopwatch_running, stopwatch_timer, countdownVars, configVars,
                   envVars, themeVars,
                   surfaceVars, storeVars>>
    /\ GeometryAndUpdate

----------------------------------------------------------------------------
(* ThemeManager and the gradient of paintEvent.  The catalog's keys are    *)
(* written in English, in the order of THEMES; positions are hundredths,   *)
(* colours are <<red, green, blue>>.                                       *)

DEFAULT_THEME == "solid"

Stop(pos, r, g, b) == <<pos, <<r, g, b>>>>

THEMES ==
    ("solid" :> <<Stop(0, 255, 255, 255)>>)
    @@ ("rainbow" :> <<Stop(0, 255, 0, 0), Stop(16, 255, 165, 0), Stop(33, 255, 255, 0),
                       Stop(50, 0, 255, 0), Stop(66, 0, 255, 255), Stop(83, 0, 0, 255),
                       Stop(100, 128, 0, 128)>>)
    @@ ("sunset" :> <<Stop(0, 255, 69, 0), Stop(33, 255, 140, 0),
                      Stop(66, 255, 215, 0), Stop(100, 255, 255, 0)>>)
    @@ ("black_white" :> <<Stop(0, 255, 255, 255), Stop(33, 200, 200, 200),
                           Stop(66, 100, 100, 100), Stop(100, 0, 0, 0)>>)
    @@ ("purple_mood" :> <<Stop(0, 230, 230, 250), Stop(33, 147, 112, 219),
                           Stop(66, 138, 43, 226), Stop(100, 186, 85, 211)>>)
    @@ ("red_storm" :> <<Stop(0, 255, 0, 0), Stop(33, 200, 0, 0),
                         Stop(66, 150, 0, 0), Stop(100, 100, 0, 0)>>)
    @@ ("ocean_blue" :> <<Stop(0, 0, 191, 255), Stop(33, 30, 144, 255),
                          Stop(66, 70, 130, 180), Stop(100, 25, 25, 112)>>)
    @@ ("forest_green" :> <<Stop(0, 173, 255, 47), Stop(33, 124, 252, 0),
                            Stop(66, 50, 205, 50), Stop(100, 34, 139, 34)>>)
    @@ ("aurora" :> <<Stop(0, 0, 255, 127), Stop(33, 0, 255, 255),
                      Stop(66, 0, 191, 255), Stop(100, 138, 43, 226)>>)
    @@ ("candy" :> <<Stop(0, 255, 182, 193), Stop(33, 255, 192, 203),
                     Stop(66, 255, 218, 185), Stop(100, 255, 228, 225)>>)
    @@ ("flame" :> <<Stop(0, 255, 99, 71), Stop(33, 255, 69, 0),
                     Stop(66, 255, 140, 0), Stop(100, 255, 215, 0)>>)

get_gradient_stops(theme) ==
    IF theme \in DOMAIN THEMES THEN THEMES[theme] ELSE THEMES["solid"]

\* _cached_gradient = None, _cached_size = None
NoGradient == [width |-> 0, stops |-> <<>>, spread |-> "none", start |-> 0, final |-> 0]
NoSize == <<0, 0>>

\* QLinearGradient(0, 0, width, 0): no stops of its own yet, PadSpread
QLinearGradient(width) ==
    [width |-> width, stops |-> <<>>, spread |-> "PadSpread", start |-> 0,
     final |-> width]

\* QGradient.setColorAt: the stop at pos is added or replaced
setColorAt(g, pos, color) ==
    [g EXCEPT !.stops = [q \in (DOMAIN g.stops) \cup {pos} |->
                            IF q = pos THEN color ELSE g.stops[q]]]

RECURSIVE SetStops(_, _, _)
\* the loop over the stops, after its first k rounds
SetStops(g, stops, k) ==
    IF k = 0 THEN g
    ELSE setColorAt(SetStops(g, stops, k - 1), stops[k][1], stops[k][2])

\* the loop without the closing stop
seam_stop_left_out(g, stops) == g

\* if stops and len(stops) > 1: setColorAt(1.0, stops[0][1])
seam_stop(g, stops) ==
    IF Len(stops) > 1 THEN setColorAt(g, 100, stops[1][2]) ELSE g

setSpread(g) == [g EXCEPT !.spread = "RepeatSpread"]

\* the gradient that the rebuild of paintEvent caches
build_gradient(theme, width) ==
    LET stops == get_gradient_stops(theme)
    IN  setSpread(seam_stop(SetStops(QLinearGradient(width), stops, Len(stops)),
                            stops))

\* the points of the gradient branch at which a call can raise
NoFault == "none"
BuildFaults == {"QLinearGradient", "get_gradient_stops", "setColorAt",
                "setColorAt_seam", "setSpread", "size"}
AnimationFaults == {"setStart", "setFinalStop"}
FaultPoints == BuildFaults \cup AnimationFaults \cup {"setPen"}

\* the test that looks at the cached gradient only, not at the size
needs_rebuild_ignores_size == cached_gradient = NoGradient

needs_rebuild ==
    cached_gradient = NoGradient \/ cached_size # <<win_width, win_height>>

\* the cache as the rebuild leaves it when the call named by fault raises
partial_gradient(fault) ==
    LET stops == get_gradient_stops(theme_name)
        g0 == QLinearGradient(win_width)
        g1 == SetStops(g0, stops, Len(stops))
    IN  CASE fault = "QLinearGradient" -> cached_gradient
          [] fault = "get_gradient_stops" -> g0
          [] fault = "setColorAt" -> SetStops(g0, stops, 1)
          [] fault = "setColorAt_seam" -> g1
          [] fault = "setSpread" -> seam_stop(g1, stops)
          [] OTHER -> setSpread(seam_stop(g1, stops))

----------------------------------------------------------------------------
(* SettingsManager: QSettings holds raw values; a value read back may be   *)
(* of the type it was written with or, after a round through the backend, *)
(* a string.  A raw value is a record: t its Python type, s its text (a    *)
(* sequence of characters), i its integer, b its truth value or, for a     *)
(* colour, QColor.isValid().  No setting of the program has a float        *)
(* default, so floats are left out.                                        *)

Absent == [t |-> "absent", s |-> <<>>, i |-> 0, b |-> FALSE]
NoneV == [t |-> "none", s |-> <<>>, i |-> 0, b |-> FALSE]
StrV(s) == [t |-> "str", s |-> s, i |-> 0, b |-> FALSE]
IntV(i) == [t |-> "int", s |-> <<>>, i |-> i, b |-> FALSE]
BoolV(b) == [t |-> "bool", s |-> <<>>, i |-> 0, b |-> b]
\* a valid QColor, s its name "#rrggbb"
ColorV(s) == [t |-> "color", s |-> s, i |-> 0, b |-> TRUE]
\* the QColor that QColor(text) gives for a text that names no colour
InvalidColor == [t |-> "color", s |-> <<>>, i |-> 0, b |-> FALSE]

UpperCase == <<"A", "B", "C", "D", "E", "F", "G", "H", "I", "J", "K", "L", "M",
               "N", "O", "P", "Q", "R", "S", "T", "U", "V", "W", "X", "Y", "Z">>
LowerCase == <<"a", "b", "c", "d", "e", "f", "g", "h", "i", "j", "k", "l", "m",
               "n", "o", "p", "q", "r", "s", "t", "u", "v", "w", "x", "y", "z">>

\* str.lower()
lower(s) ==
    [k \in DOMAIN s |->
        IF \E u \in DOMAIN UpperCase : UpperCase[u] = s[k]
        THEN LowerCase[CHOOSE u \in DOMAIN UpperCase : UpperCase[u] = s[k]]
        ELSE s[k]]

is_digit(c) == \E d \in DOMAIN DigitChar : DigitChar[d] = c
digit_value(c) == (CHOOSE d \in DOMAIN DigitChar : DigitChar[d] = c) - 1

RECURSIVE digits_value(_)
digits_value(s) ==
    IF s = <<>> THEN 0
    ELSE digits_value(SubSeq(s, 1, Len(s) - 1)) * 10 + digit_value(s[Len(s)])

RECURSIVE strip(_)
\* str.strip() of blanks
strip(s) ==
    IF s = <<>> THEN s
    ELSE IF Head(s) = " " THEN strip(Tail(s))
    ELSE IF s[Len(s)] = " " THEN strip(SubSeq(s, 1, Len(s) - 1))
    ELSE s

\* int(text): blanks around, an optional sign, then digits only; ok is false
\* where int raises ValueError
int_str(s) ==
    LET u == strip(s)
        signed == u # <<>> /\ Head(u) \in {"+", "-"}
        d == IF signed THEN Tail(u) ELSE u
        ok == d # <<>> /\ \A k \in DOMAIN d : is_digit(d[k])
    IN  [ok |-> ok,
         value |-> IF ~ok THEN 0
                   ELSE IF signed /\ Head(u) = "-" THEN 0 - digits_value(d)
                   ELSE digits_value(d)]

\* int(value); ok is false where it raises (ValueError, TypeError)
py_int(value) ==
    CASE value.t = "str" -> int_str(value.s)
      [] value.t = "int" -> [ok |-> TRUE, value |-> value.i]
      [] value.t = "bool" -> [ok |-> TRUE, value |-> IF value.b THEN 1 ELSE 0]
      [] OTHER -> [ok |-> FALSE, value |-> 0]

\* bool(value)
py_bool(value) ==
    CASE value.t = "int" -> value.i # 0
      [] value.t = "bool" -> value.b
      [] value.t = "str" -> value.s # <<>>
      [] value.t = "color" -> TRUE
      [] OTHER -> FALSE

\* str(value)
py_str(value) ==
    CASE value.t = "str" -> value.s
      [] value.t = "int" -> IF value.i < 0 THEN <<"-">> \o Decimal(0 - value.i)
                            ELSE Decimal(value.i)
      [] value.t = "bool" -> IF value.b THEN <<"T", "r", "u", "e">>
                             ELSE <<"F", "a", "l", "s", "e">>
      [] value.t = "color" -> <<"<", "Q", "C", "o", "l", "o", "r", ">">>
      [] OTHER -> <<"N", "o", "n", "e">>

HexDigits == {"0", "1", "2", "3", "4", "5", "6", "7", "8", "9",
              "a", "b", "c", "d", "e", "f"}
\* the colour names known (two of the SVG names)
NamedColors == {<<<<"r", "e", "d">>, <<"#", "f", "f", "0", "0", "0", "0">>>>,
                <<<<"w", "h", "i", "t", "e">>, <<"#", "f", "f", "f", "f", "f", "f">>>>}

\* QColor(text): "#rrggbb" or a colour name, in any case; anything else
\* gives an invalid colour, without raising
QColor_str(s) ==
    LET l == lower(s)
    IN  IF Len(l) = 7 /\ l[1] = "#" /\ \A k \in 2..7 : l[k] \in HexDigits
        THEN ColorV(l)
        ELSE IF \E nc \in NamedColors : nc[1] = l
        THEN ColorV((CHOOSE nc \in NamedColors : nc[1] = l)[2])
        ELSE InvalidColor

SettingsKeys == {"base_size", "font_opacity", "show_date", "font_family",
                 "custom_color", "fixed_pos", "pos_x", "pos_y"}

\* QSettings.value(key, default)
qsettings_value(key, default) ==
    IF qsettings[key] = Absent THEN default ELSE qsettings[key]

\* the coercion of SettingsManager.get with a bool default
coerce_bool(raw, default) ==
    IF raw.t = "str" THEN BoolV(lower(raw.s) = <<"t", "r", "u", "e">>)
    ELSE IF raw.t # "none" THEN BoolV(py_bool(raw)) ELSE default

\* SettingsManager.get after the read of the raw value
get_value(raw, default) ==
    IF default.t # "none"
    THEN CASE default.t = "bool" -> coerce_bool(raw, default)
           [] default.t = "int" ->
                IF raw.t # "none" /\ py_int(raw).ok THEN IntV(py_int(raw).value)
                ELSE default
           [] default.t = "str" ->
                IF raw.t # "none" THEN StrV(py_str(raw)) ELSE default
           [] default.t = "color" ->
                IF raw.t = "str" THEN QColor_str(raw.s)
                ELSE IF raw.t = "color" THEN raw
                ELSE default
           [] OTHER -> raw
    ELSE raw

get(key, default) == get_value(qsettings_value(key, default), default)

DEFAULT_FONT_OPACITY == 255
DEFAULT_FIXED_POS == FALSE
\* the default of pos_x and pos_y
DEFAULT_POS == 100
DEFAULT_COLOR == ColorV(<<"#", "f", "f", "f", "f", "f", "f">>)

\* the default each key is read with
DefaultOf(key) ==
    CASE key = "base_size" -> IntV(DEFAULT_BASE_SIZE)
      [] key = "font_opacity" -> IntV(DEFAULT_FONT_OPACITY)
      [] key = "show_date" -> BoolV(DEFAULT_SHOW_DATE)
      [] key = "font_family" -> StrV(<<"A", "r", "i", "a", "l">>)
      [] key = "custom_color" -> DEFAULT_COLOR
      [] key = "fixed_pos" -> BoolV(DEFAULT_FIXED_POS)
      [] OTHER -> IntV(DEFAULT_POS)

\* no SettingsManager.get yet
NoGet == [key |-> "", value |-> Absent]

\* drag_position = None
NoDrag == <<>>

----------------------------------------------------------------------------
(* Construction: TimerManager.__init__, then ClockWidget.__init__ with an  *)
(* empty settings store (first launch), ending in update_geometry().       *)


TimerInit ==
    /\ countdown_seconds = DEFAULT_COUNTDOWN_MINUTES * 60
    /\ stopwatch_seconds = 0
    /\ countdown_running = FALSE
    /\ stopwatch_running = FALSE
    /\ countdown_timer = FALSE
    /\ stopwatch_timer = FALSE

\* the theme state of a widget constructed with the single-colour theme
ThemeInit ==
    /\ theme_name = DEFAULT_THEME
    /\ animation_timer = FALSE
    /\ gradient_offset = 0
    /\ cached_gradient = NoGradient
    /\ cached_size = NoSize
    /\ pending_starts = 0

\* an empty store
StoreInit ==
    /\ qsettings = [key \in SettingsKeys |-> Absent]
    /\ got = NoGet

\* the opacity, the switch and the position as the constructor reads them
\* from the store
SurfaceInit ==
    /\ font_opacity = get("font_opacity", DefaultOf("font_opacity")).i
    /\ is_fixed = get("fixed_pos", DefaultOf("fixed_pos")).b
    /\ drag_position = NoDrag
    /\ window_pos = <<get("pos_x", DefaultOf("pos_x")).i,
                      get("pos_y", DefaultOf("pos_y")).i>>
    /\ global_pos = <<0, 0>>

WidgetInit ==
    /\ StoreInit
    /\ SurfaceInit
    /\ ThemeInit
    /\ win_width = update_geometry[1]
    /\ win_height = update_geometry[2]
    /\ update_requested = FALSE
    /\ lastOp = Op("init")
    /\ calls = <<Call("update_geometry")>>

Init ==
    /\ TimerInit
    /\ font_family = DEFAULT_FONT_FAMILY
    /\ base_font_size = DEFAULT_BASE_SIZE
    /\ show_date = DEFAULT_SHOW_DATE
    /\ show_week = DEFAULT_SHOW_WEEK
    /\ show_seconds = DEFAULT_SHOW_SECONDS
    /\ week_name_len = 6
    /\ WidgetInit

\* the bound on the countdown ticks explored
TickExplored ==
    \/ countdown_seconds <= FullTickBelow
    \/ countdown_seconds > DEFAULT_COUNTDOWN_MINUTES * 60 - MaxTickRun

Next ==
    \/ \E m \in MinuteArgs : start_countdown(m)
    \/ pause_countdown
    \/ \E m \in MinuteArgs : reset_countdown(m)
    \/ \E m \in MinuteInputs : set_countdown_minutes(m)
    \/ start_stopwatch
    \/ pause_stopwatch
    \/ reset_stopwatch
    \/ (TickExplored /\ on_countdown_tick)
    \/ (stopwatch_seconds < MaxStopwatch /\ on_stopwatch_tick)

Spec == Init /\ [][Next]_vars

\* A stopwatch that has been running for a while: the elapsed seconds
\* reached by that many ticks from 0, and the ticks explored from there
StopwatchStarts == {0, 58, 3598, 3659, 35998, 359998}
StopwatchRun == 4

StopwatchExplored ==
    \E s \in StopwatchStarts :
        stopwatch_seconds >= s /\ stopwatch_seconds < s + StopwatchRun

InitStopwatch ==
    /\ countdown_seconds = DEFAULT_COUNTDOWN_MINUTES * 60
    /\ countdown_running = FALSE
    /\ countdown_timer = FALSE
    /\ stopwatch_seconds \in StopwatchStarts
    /\ stopwatch_running = TRUE
    /\ stopwatch_timer = TRUE
    /\ font_family = DEFAULT_FONT_FAMILY
    /\ base_font_size = DEFAULT_BASE_SIZE
    /\ show_date = DEFAULT_SHOW_DATE
    /\ show_week = DEFAULT_SHOW_WEEK
    /\ show_seconds = DEFAULT_SHOW_SECONDS
    /\ week_name_len = 6
    /\ StoreInit
    /\ SurfaceInit
    /\ ThemeInit
    /\ win_width = update_geometry[1]
    /\ win_height = update_geometry[2]
    /\ update_requested = TRUE
    /\ IF stopwatch_seconds = 0
       THEN /\ lastOp = Op("start_stopwatch")
            /\ calls = <<Call("stopwatch_timer.start"),
                         EmitBool("stopwatch_state_changed", TRUE)>>
                       \o on_timer_changed
       ELSE /\ lastOp = Op("on_stopwatch_tick")
            /\ calls = <<EmitInt("stopwatch_updated", stopwatch_seconds)>>
                       \o on_timer_changed

NextStopwatch ==
    \/ start_stopwatch
    \/ pause_stopwatch
    \/ reset_stopwatch
    \/ (StopwatchExplored /\ on_stopwatch_tick)

SpecStopwatch == InitStopwatch /\ [][NextStopwatch]_vars

\* A countdown left to run: its tick timer fires as long as it is scheduled
\* (QTimer with a 1000 ms interval), nothing pauses or resets it while it
\* runs and no command puts seconds back on a running countdown.  Short
\* durations, so that every run is followed to its end.
CountdownMinutes == {0, 1, 2}
ShortCountdown == 120

NextCountdown ==
    \/ \E m \in CountdownMinutes :
          /\ countdown_running => m * 60 <= countdown_seconds
          /\ start_countdown(m)
    \/ (countdown_seconds <= ShortCountdown /\ start_countdown(NoArg))
    \/ \E m \in CountdownMinutes :
          /\ countdown_running => m * 60 <= countdown_seconds
          /\ set_countdown_minutes(m)
    \/ (~countdown_running /\ reset_countdown(NoArg))
    \/ start_stopwatch
    \/ pause_stopwatch
    \/ (stopwatch_seconds < MaxStopwatch /\ on_stopwatch_tick)
    \/ on_countdown_tick

SpecCountdown == Init /\ [][NextCountdown]_vars /\ WF_vars(on_countdown_tick)

----------------------------------------------------------------------------
(* ClockWidget: the setters, the clock timer, the date and paintEvent.     *)
(* The theme stays the single-colour default here, so paintEvent's pen is  *)
(* the flat custom colour and the gradient state does not change.          *)

\* the sizes tried (19 and 251 are clamped by the setter), the lengths of
\* the weekday names ("Monday", "pingasunngorneq")
BaseSizes == {20, 80, 250}
SizeInputs == BaseSizes \cup {19, 251}
WeekNameLens == {6, 15}
Setters == {"set_font_family", "set_base_font_size", "set_show_date",
            "set_show_week", "set_show_seconds"}

set_font_family(family) ==
    /\ font_family' = family
    /\ calls' = <<Call("update_geometry"), EmitNone("appearance_changed")>>
    /\ lastOp' = Op("set_font_family")
    /\ UNCHANGED <<timerVars, base_font_size, show_date, show_week, show_seconds,
                   envVars, themeVars,
                   surfaceVars, storeVars>>
    /\ GeometryOnly

set_base_font_size(size) ==
    /\ base_font_size' = Max2(20, IF size <= 250 THEN size ELSE 250)
    /\ calls' = <<Call("update_geometry"), EmitNone("appearance_changed")>>
    /\ lastOp' = Op("set_base_font_size")
    /\ UNCHANGED <<timerVars, font_family, show_date, show_week, show_seconds,
                   envVars, themeVars,
                   surfaceVars, storeVars>>
    /\ GeometryOnly

set_show_date(show) ==
    /\ show_date' = show
    /\ calls' = <<Call("update_geometry"), EmitNone("appearance_changed")>>
    /\ lastOp' = Op("set_show_date")
    /\ UNCHANGED <<timerVars, font_family, base_font_size, show_week, show_seconds,
                   envVars, themeVars,
                   surfaceVars, storeVars>>
    /\ GeometryOnly

set_show_week(show) ==
    /\ show_week' = show
    /\ calls' = <<Call("update_geometry"), EmitNone("appearance_changed")>>
    /\ lastOp' = Op("set_show_week")
    /\ UNCHANGED <<timerVars, font_family, base_font_size, show_date, show_seconds,
                   envVars, themeVars,
                   surfaceVars, storeVars>>
    /\ GeometryOnly

set_show_seconds(show) ==
    /\ show_seconds' = show
    /\ calls' = <<EmitInt("clock_timer.setInterval", IF show THEN 100 ELSE 1000),
                  Call("update"), EmitNone("appearance_changed")>>
    /\ update_requested' = TRUE
    /\ lastOp' = Op("set_show_seconds")
    /\ UNCHANGED <<timerVars, font_family, base_font_size, show_date, show_week,
                   envVars, sizeVars, themeVars,
                   surfaceVars, storeVars>>

\* the timeout of clock_timer, connected to update()
clock_tick ==
    /\ update_requested' = TRUE
    /\ calls' = <<Call("update")>>
    /\ lastOp' = Op("clock_tick")
    /\ UNCHANGED <<timerVars, configVars, envVars, sizeVars, themeVars,
                   surfaceVars, storeVars>>

\* the environment: midnight passes and the weekday name changes
day_changes ==
    /\ \E n \in WeekNameLens \ {week_name_len} : week_name_len' = n
    /\ calls' = <<>>
    /\ lastOp' = Op("day_changes")
    /\ UNCHANGED <<timerVars, configVars, sizeVars, update_requested, themeVars,
                   surfaceVars, storeVars>>

\* one drawText call: the text starts at x and is w wide (AlignLeft in a
\* rectangle at (x, y), draw_width wide and h high)
Line(kind, x, y, w, h, draw_width) ==
    [kind |-> kind, x |-> x, y |-> y, w |-> w, h |-> h, draw_width |-> draw_width]

paint_timer ==
    LET w == horizontalAdvance(font_family, base_font_size, get_timer_text)
        x == (win_width - w) \div 2
        margin == Max2((base_font_size * 8) \div 10, 40)
    IN  <<Line("timer", x, 4, w, fm_height(font_family, base_font_size), w + margin)>>

paint_clock ==
    LET h_time == fm_height(font_family, base_font_size)
        h_small == fm_height(font_family, small_font_size)
        w_time == horizontalAdvance(font_family, base_font_size, get_time_text)
        w_date == horizontalAdvance(font_family, small_font_size, get_date_text)
        w_week == horizontalAdvance(font_family, small_font_size, get_week_text)
        margin == Max2((base_font_size * 8) \div 10, 40)
        y_date == 4 + h_time + 2
        y_week == IF show_date THEN y_date + h_small + 2 ELSE y_date
    IN  <<Line("time", (win_width - w_time) \div 2, 4, w_time, h_time,
               w_time + margin)>>
        \o (IF show_date
            THEN <<Line("date", (win_width - w_date) \div 2, y_date, w_date, h_small,
                        w_date + small_margin)>>
            ELSE <<>>)
        \o (IF show_week
            THEN <<Line("week", (win_width - w_week) \div 2, y_week, w_week, h_small,
                        w_week + small_margin)>>
            ELSE <<>>)

\* the drawText calls of paintEvent in the current state
painted == IF is_timer_active THEN paint_timer ELSE paint_clock

\* a pending paint event is delivered: the pen is chosen, under try/except
\* when protected, and the lines of `painted` are drawn.  fault names the
\* call of the gradient branch that raises, NoFault if none does.
paintEvent_with(fault, protected) ==
    LET stops == get_gradient_stops(theme_name)
        size == <<win_width, win_height>>
        rebuilt == IF needs_rebuild THEN build_gradient(theme_name, win_width)
                   ELSE cached_gradient
        started == [rebuilt EXCEPT !.start = gradient_offset]
        moved == [started EXCEPT !.final = gradient_offset + win_width]
    IN  /\ update_requested
        /\ fault # NoFault =>
              /\ theme_name # "solid"
              /\ fault \in BuildFaults => needs_rebuild
              /\ fault \in {"setColorAt", "setColorAt_seam"} => Len(stops) > 1
              /\ fault \in AnimationFaults => animation_timer
        /\ IF theme_name = "solid"
           THEN UNCHANGED <<cached_gradient, cached_size>>
           ELSE IF fault \in BuildFaults
           THEN /\ cached_gradient' = partial_gradient(fault)
                /\ UNCHANGED cached_size
           ELSE /\ cached_size' = size
                /\ cached_gradient' =
                      IF ~animation_timer \/ fault = "setStart" THEN rebuilt
                      ELSE IF fault = "setFinalStop" THEN started
                      ELSE moved
        /\ calls' = IF theme_name = "solid"
                    THEN <<Call("setPen.custom_color"), Call("drawText")>>
                    ELSE IF fault = NoFault
                    THEN <<Call("setPen.gradient"), Call("drawText")>>
                    ELSE IF protected
                    THEN <<Call("except"), Call("setPen.custom_color"),
                           Call("drawText")>>
                    ELSE <<Call("raise")>>
        /\ update_requested' = FALSE
        /\ lastOp' = Op("paintEvent")
        /\ UNCHANGED <<timerVars, configVars, envVars, sizeVars, theme_name,
                       animation_timer, gradient_offset, pending_starts,
                       surfaceVars, storeVars>>

\* paintEvent without the try/except around the pen
paintEvent_unprotected(fault) == paintEvent_with(fault, FALSE)

paintEvent(fault) == paintEvent_with(fault, TRUE)

\* the bound on the singleShot callbacks in flight
MaxPending == 2

\* set_theme; the except branch runs only if one of these calls raises
set_theme(theme) ==
    /\ theme # "solid" => pending_starts < MaxPending
    /\ theme_name' = theme
    /\ animation_timer' = FALSE
    /\ gradient_offset' = 0
    /\ cached_gradient' = NoGradient
    /\ cached_size' = NoSize
    /\ pending_starts' = IF theme # "solid" THEN pending_starts + 1 ELSE pending_starts
    /\ update_requested' = TRUE
    /\ calls' = <<Call("animation_timer.stop")>>
                \o (IF theme # "solid" THEN <<Call("QTimer.singleShot")>> ELSE <<>>)
                \o <<Call("update"), EmitNone("appearance_changed")>>
    /\ lastOp' = Op("set_theme")
    /\ UNCHANGED <<timerVars, configVars, envVars, sizeVars,
                   surfaceVars, storeVars>>

\* a singleShot callback of set_theme fires
safe_start_animation ==
    /\ pending_starts > 0
    /\ pending_starts' = pending_starts - 1
    /\ animation_timer' = TRUE
    /\ calls' = IF ~animation_timer THEN <<Call("animation_timer.start")>> ELSE <<>>
    /\ lastOp' = Op("safe_start_animation")
    /\ UNCHANGED <<timerVars, configVars, envVars, sizeVars, update_requested,
                   theme_name, gradient_offset, cached_gradient, cached_size,
                   surfaceVars, storeVars>>

\* the timeout of animation_timer
update_gradient ==
    /\ animation_timer
    /\ IF win_width > 0
       THEN /\ gradient_offset' = (gradient_offset + 2) % win_width
            /\ update_requested' = TRUE
            /\ calls' = <<Call("update")>>
       ELSE /\ UNCHANGED <<gradient_offset, update_requested>>
            /\ calls' = <<>>
    /\ lastOp' = Op("update_gradient")
    /\ UNCHANGED <<timerVars, configVars, envVars, sizeVars, theme_name,
                   animation_timer, cached_gradient, cached_size, pending_starts,
                   surfaceVars, storeVars>>

\* Construction with any stored configuration within the dialog's ranges
InitWidget ==
    /\ TimerInit
    /\ font_family \in Families
    /\ base_font_size \in BaseSizes
    /\ show_date \in BOOLEAN
    /\ show_week \in BOOLEAN
    /\ show_seconds \in BOOLEAN
    /\ week_name_len \in WeekNameLens
    /\ WidgetInit

\* the minutes tried and the stopwatch ticks explored in SpecWidget
WidgetMaxStopwatch == 1
WidgetMinutes == {DEFAULT_COUNTDOWN_MINUTES, 100}

NextWidget ==
    \/ \E show \in BOOLEAN : set_show_seconds(show)
    \/ \E family \in Families : set_font_family(family)
    \/ \E size \in SizeInputs : set_base_font_size(size)
    \/ \E show \in BOOLEAN : set_show_date(show)
    \/ \E show \in BOOLEAN : set_show_week(show)
    \/ clock_tick
    \/ day_changes
    \/ paintEvent(NoFault)
    \/ start_countdown(NoArg)
    \/ reset_countdown(NoArg)
    \/ \E m \in WidgetMinutes : set_countdown_minutes(m)
    \/ start_stopwatch
    \/ reset_stopwatch
    \/ (stopwatch_seconds < WidgetMaxStopwatch /\ on_stopwatch_tick)

SpecWidget == InitWidget /\ [][NextWidget]_vars

\* A widget constructed with a stored theme, its animation running for a
\* while: the themes and sizes tried, the offsets the animation has
\* reached, and the animation ticks explored around 0 and the wrap
ThemeInputs == {"solid", "rainbow", "sunset"}
\* the theme names the settings store may hold: those and a name that is
\* no key of THEMES
StoredThemes == ThemeInputs \cup {"neon"}
ThemeSizes == {20, DEFAULT_BASE_SIZE}
OffsetStarts == {0, 120, 200}
AnimationRun == 2

InitTheme ==
    /\ TimerInit
    /\ font_family = DEFAULT_FONT_FAMILY
    /\ base_font_size \in ThemeSizes
    /\ show_date = DEFAULT_SHOW_DATE
    /\ show_week = DEFAULT_SHOW_WEEK
    /\ show_seconds = DEFAULT_SHOW_SECONDS
    /\ week_name_len = 6
    /\ StoreInit
    /\ SurfaceInit
    /\ theme_name \in StoredThemes
    /\ animation_timer = (theme_name # "solid")
    /\ win_width = update_geometry[1]
    /\ win_height = update_geometry[2]
    /\ gradient_offset \in IF animation_timer
                            THEN {o \in OffsetStarts : o < win_width}
                            ELSE {0}
    /\ cached_gradient = NoGradient
    /\ cached_size = NoSize
    /\ pending_starts = 0
    /\ update_requested = (gradient_offset > 0)
    /\ IF gradient_offset = 0
       THEN lastOp = Op("init") /\ calls = <<Call("update_geometry")>>
       ELSE lastOp = Op("update_gradient") /\ calls = <<Call("update")>>

AnimationExplored ==
    \/ gradient_offset < 2 * AnimationRun
    \/ gradient_offset >= win_width - 2 * AnimationRun

ThemeSteps ==
    \/ \E theme \in ThemeInputs : set_theme(theme)
    \/ safe_start_animation
    \/ (AnimationExplored /\ update_gradient)
    \/ \E size \in ThemeSizes : set_base_font_size(size)

NextTheme ==
    \/ ThemeSteps
    \/ paintEvent(NoFault)

SpecTheme == InitTheme /\ [][NextTheme]_vars

NextFault ==
    \/ ThemeSteps
    \/ \E fault \in FaultPoints \cup {NoFault} : paintEvent(fault)

SpecFault == InitTheme /\ [][NextFault]_vars

----------------------------------------------------------------------------
(* The settings store on its own: values written by set and read by get    *)

\* the raw values tried for a key: values of the default's type, their
\* texts as a backend returns them, and texts and values of other types
RawValues(key) ==
    CASE key = "base_size" ->
            {IntV(120), StrV(<<"1", "2", "0">>), StrV(<<" ", "-", "7">>),
             StrV(<<"1", "2", "a">>), NoneV}
      [] key = "show_date" ->
            {BoolV(FALSE), StrV(<<"f", "a", "l", "s", "e">>),
             StrV(<<"T", "r", "u", "e">>), StrV(<<"m", "a", "y", "b", "e">>),
             IntV(0)}
      [] key = "custom_color" ->
            {ColorV(<<"#", "f", "f", "0", "0", "0", "0">>),
             StrV(<<"#", "F", "F", "0", "0", "0", "0">>),
             StrV(<<"r", "e", "d">>), StrV(<<"r", "e", "d", "d">>)}
      [] key = "font_family" ->
            {StrV(<<"M", "o", "n", "o">>), IntV(7)}
      [] OTHER -> {}

StoredKeys == {"base_size", "show_date", "custom_color", "font_family"}

\* SettingsManager.set
settings_set(key, raw) ==
    /\ qsettings' = [qsettings EXCEPT ![key] = raw]
    /\ lastOp' = Op("set")
    /\ calls' = <<Call("qsettings.setValue")>>
    /\ UNCHANGED <<timerVars, configVars, envVars, sizeVars, update_requested,
                   themeVars, surfaceVars, got>>

\* SettingsManager.get with the key's default
settings_get(key) ==
    /\ got' = [key |-> key, value |-> get(key, DefaultOf(key))]
    /\ lastOp' = Op("get")
    /\ calls' = <<Call("qsettings.value")>>
    /\ UNCHANGED <<timerVars, configVars, envVars, sizeVars, update_requested,
                   themeVars, surfaceVars, qsettings>>

NextSettings ==
    \/ \E key \in StoredKeys : \E raw \in RawValues(key) : settings_set(key, raw)
    \/ \E key \in StoredKeys : settings_get(key)

SpecSettings == Init /\ [][NextSettings]_vars

----------------------------------------------------------------------------
(* The clock surface: opacity, the fixed-position switch and the drag      *)

set_font_opacity(opacity) ==
    /\ font_opacity' = Max2(0, IF opacity <= 255 THEN opacity ELSE 255)
    /\ update_requested' = TRUE
    /\ calls' = <<Call("update"), EmitNone("appearance_changed")>>
    /\ lastOp' = Op("set_font_opacity")
    /\ UNCHANGED <<timerVars, configVars, envVars, sizeVars, themeVars,
                   is_fixed, drag_position, window_pos, global_pos, storeVars>>

set_fixed_pos(fixed) ==
    /\ is_fixed' = fixed
    /\ calls' = <<EmitNone("appearance_changed")>>
    /\ lastOp' = Op("set_fixed_pos")
    /\ UNCHANGED <<timerVars, configVars, envVars, sizeVars, update_requested,
                   themeVars, font_opacity, drag_position, window_pos, global_pos,
                   storeVars>>

\* Qt.MouseButton.LeftButton, Qt.MouseButton.RightButton; the buttons held
\* during a move are their sum
LeftButton == 1
RightButton == 2

Minus(p, q) == <<p[1] - q[1], p[2] - q[2]>>

\* frameGeometry().topLeft() of the frameless window is pos()
mousePressEvent(button, p) ==
    LET begins == button = LeftButton /\ ~is_fixed
    IN  /\ global_pos' = p
        /\ drag_position' = IF begins THEN Minus(p, window_pos) ELSE drag_position
        /\ calls' = IF begins THEN <<Call("event.accept")>> ELSE <<>>
        /\ lastOp' = OpArg("mousePressEvent", button)
        /\ UNCHANGED <<timerVars, configVars, envVars, sizeVars, update_requested,
                       themeVars, font_opacity, is_fixed, window_pos, storeVars>>

\* mouseMoveEvent without the test of is_fixed
mouseMoveEvent_ignores_fixed(buttons, p) ==
    LET moves == buttons = LeftButton /\ drag_position # NoDrag
    IN  /\ global_pos' = p
        /\ window_pos' = IF moves THEN Minus(p, drag_position) ELSE window_pos
        /\ calls' = IF moves THEN <<Call("move"), Call("event.accept")>> ELSE <<>>
        /\ lastOp' = OpArg("mouseMoveEvent", buttons)
        /\ UNCHANGED <<timerVars, configVars, envVars, sizeVars, update_requested,
                       themeVars, font_opacity, is_fixed, drag_position, storeVars>>

mouseMoveEvent(buttons, p) ==
    LET moves == buttons = LeftButton /\ ~is_fixed /\ drag_position # NoDrag
    IN  /\ global_pos' = p
        /\ window_pos' = IF moves THEN Minus(p, drag_position) ELSE window_pos
        /\ calls' = IF moves THEN <<Call("move"), Call("event.accept")>> ELSE <<>>
        /\ lastOp' = OpArg("mouseMoveEvent", buttons)
        /\ UNCHANGED <<timerVars, configVars, envVars, sizeVars, update_requested,
                       themeVars, font_opacity, is_fixed, drag_position, storeVars>>

\* mouseReleaseEvent, with _save_position
mouseReleaseEvent(button, p) ==
    /\ global_pos' = p
    /\ drag_position' = NoDrag
    /\ qsettings' = [qsettings EXCEPT !["pos_x"] = IntV(window_pos[1]),
                                      !["pos_y"] = IntV(window_pos[2])]
    /\ calls' = <<Call("qsettings.setValue"), Call("qsettings.setValue")>>
    /\ lastOp' = OpArg("mouseReleaseEvent", button)
    /\ UNCHANGED <<timerVars, configVars, envVars, sizeVars, update_requested,
                   themeVars, font_opacity, is_fixed, window_pos, got>>

\* A widget constructed from a store that holds any integers as base size
\* and opacity, and the arguments its two setters are called with
StoredSizes == {Absent, IntV(5), IntV(120), IntV(300), StrV(<<"3", "0", "0">>)}
StoredOpacities == {Absent, IntV(0 - 1), IntV(128), IntV(256)}
OpacityInputs == {0 - 1, 0, 128, 255, 256}

InitSurface ==
    /\ TimerInit
    /\ qsettings \in {[[key \in SettingsKeys |-> Absent]
                          EXCEPT !["base_size"] = size, !["font_opacity"] = opacity] :
                      size \in StoredSizes, opacity \in StoredOpacities}
    /\ got = NoGet
    /\ font_family = DEFAULT_FONT_FAMILY
    /\ base_font_size = get("base_size", DefaultOf("base_size")).i
    /\ show_date = DEFAULT_SHOW_DATE
    /\ show_week = DEFAULT_SHOW_WEEK
    /\ show_seconds = DEFAULT_SHOW_SECONDS
    /\ week_name_len = 6
    /\ SurfaceInit
    /\ ThemeInit
    /\ win_width = update_geometry[1]
    /\ win_height = update_geometry[2]
    /\ update_requested = FALSE
    /\ lastOp = Op("init")
    /\ calls = <<Call("update_geometry")>>

NextSurface ==
    \/ \E size \in SizeInputs : set_base_font_size(size)
    \/ \E opacity \in OpacityInputs : set_font_opacity(opacity)
    \/ paintEvent(NoFault)

SpecSurface == InitSurface /\ [][NextSurface]_vars

\* The drag: the pointer positions tried, and the part of the desktop the
\* window is followed over (at most MaxShift from where it starts)
Pointers == {<<110, 120>>, <<150, 130>>}
MaxShift == 80

Abs(n) == IF n < 0 THEN 0 - n ELSE n

WithinDesk ==
    /\ Abs(window_pos[1] - DEFAULT_POS) <= MaxShift
    /\ Abs(window_pos[2] - DEFAULT_POS) <= MaxShift

NextDrag ==
    \/ \E button \in {LeftButton, RightButton} : \E p \in Pointers :
          mousePressEvent(button, p)
    \/ \E buttons \in {LeftButton, RightButton, LeftButton + RightButton} :
          \E p \in Pointers : mouseMoveEvent(buttons, p) /\ WithinDesk'
    \/ \E button \in {LeftButton, RightButton} : \E p \in Pointers :
          mouseReleaseEvent(button, p)
    \/ \E fixed \in BOOLEAN : set_fixed_pos(fixed)

SpecDrag == Init /\ [][NextDrag]_vars

----------------------------------------------------------------------------
(* Properties of the timer machine, checked under Spec *)

HasCall(log, c) == \E i \in DOMAIN log : log[i] = c

\* the remaining seconds a start_countdown(minutes) step works with
EffectiveSeconds(minutes) ==
    IF minutes # NoArg THEN minutes * 60 ELSE countdown_seconds

\* C1: a tick of a running countdown with n > 0 seconds left leaves n - 1,
\* emits countdown_updated(n - 1) once, emits countdown_finished exactly
\* when n = 1 (once), and then leaves countdown_running false and the tick
\* timer stopped; for n > 1 the countdown keeps running.  By induction n
\* ticks in a row give n-1, ..., 1, 0 with a single finished event.
C1_TickStep ==
    (lastOp'.op = "on_countdown_tick" /\ countdown_running /\ countdown_seconds > 0)
    => /\ countdown_seconds' = countdown_seconds - 1
       /\ CountCalls(calls', "countdown_updated") = 1
       /\ HasCall(calls', EmitInt("countdown_updated", countdown_seconds - 1))
       /\ CountCalls(calls', "countdown_finished")
            = (IF countdown_seconds = 1 THEN 1 ELSE 0)
       /\ (countdown_seconds = 1 => ~countdown_running' /\ ~countdown_timer')
       /\ (countdown_seconds > 1 => countdown_running' /\ countdown_timer')

C1_CountdownTicks == [][C1_TickStep]_vars

\* C1 witness: the tick from 1 to 0 has just run
C1_Finished ==
    /\ lastOp.op = "on_countdown_tick"
    /\ countdown_seconds = 0
    /\ ~countdown_running /\ ~countdown_timer
    /\ CountCalls(calls, "countdown_finished") = 1

\* C2: the display mode is TimerExclusive exactly when the countdown is
\* running or its remaining seconds differ from 25*60, or the stopwatch is
\* running or has elapsed seconds, and Clock otherwise; it is Clock after
\* construction, and TimerExclusive (countdown still not running) after
\* set_countdown_minutes(m), m # 25, on an idle countdown.
C2_DisplayMode ==
    /\ DisplayMode \in {"TimerExclusive", "Clock"}
    /\ (DisplayMode = "TimerExclusive")
         <=> ((countdown_running \/ countdown_seconds # 25 * 60)
              \/ (stopwatch_running \/ stopwatch_seconds > 0))
    /\ (lastOp.op = "init" => DisplayMode = "Clock")
    /\ (lastOp.op = "set_countdown_minutes" /\ lastOp.arg # 25 /\ ~countdown_running
         => DisplayMode = "TimerExclusive" /\ ~countdown_timer)

\* C2 witness: 10 minutes set on an idle countdown, stopwatch untouched
C2_TenMinutesIdle ==
    /\ lastOp = OpArg("set_countdown_minutes", 10)
    /\ ~countdown_running /\ ~stopwatch_running /\ stopwatch_seconds = 0
    /\ DisplayMode = "TimerExclusive"

\* C8: start_countdown on a countdown that is not running and has, after
\* the optional minutes argument is applied, more than 0 seconds left sets
\* countdown_running, starts the tick timer (one start call), emits
\* countdown_state_changed(True) and nothing else, leaves the remaining
\* seconds at that value and leaves the stopwatch alone.
C8_StartStep ==
    (lastOp'.op = "start_countdown" /\ ~countdown_running
     /\ EffectiveSeconds(lastOp'.arg) > 0)
    => /\ countdown_running' /\ countdown_timer'
       /\ CountCalls(calls', "countdown_timer.start") = 1
       /\ Emitted(calls') = <<EmitBool("countdown_state_changed", TRUE)>>
       /\ countdown_seconds' = EffectiveSeconds(lastOp'.arg)
       /\ UNCHANGED stopwatchVars

C8_StartCountdown == [][C8_StartStep]_vars

\* C8 witness: a countdown just started beside a stopwatch that has run
C8_Started ==
    /\ lastOp.op = "start_countdown"
    /\ countdown_running /\ countdown_timer
    /\ Emitted(calls) = <<EmitBool("countdown_state_changed", TRUE)>>
    /\ stopwatch_seconds > 0

\* C9: start_countdown while the countdown is running changes neither
\* countdown_running nor the tick timer, makes no call at all (no timer
\* start, no signal), and without a minutes argument leaves the remaining
\* seconds as they are.
C9_StartWhileRunningStep ==
    (lastOp'.op = "start_countdown" /\ countdown_running)
    => /\ countdown_running' /\ countdown_timer' = countdown_timer
       /\ calls' = <<>>
       /\ (lastOp'.arg = NoArg => countdown_seconds' = countdown_seconds)
       /\ UNCHANGED stopwatchVars

C9_StartWhileRunning == [][C9_StartWhileRunningStep]_vars

\* C9 witness: start_countdown() was called on a running countdown
C9_CalledWhileRunning ==
    /\ lastOp = OpArg("start_countdown", NoArg)
    /\ countdown_running /\ countdown_timer
    /\ countdown_seconds > 0
    /\ calls = <<>>

\* C10 as stated: start_countdown on a countdown with 0 seconds left never
\* starts it, and only reset_countdown or set_countdown_minutes make the
\* remaining seconds positive again.
C10_OriginalStep ==
    /\ (lastOp'.op = "start_countdown" /\ ~countdown_running /\ countdown_seconds = 0)
       => /\ ~countdown_running' /\ ~countdown_timer'
          /\ countdown_seconds' = 0
          /\ calls' = <<>>
    /\ (countdown_seconds = 0 /\ countdown_seconds' > 0)
       => lastOp'.op \in {"reset_countdown", "set_countdown_minutes"}

C10_Original == [][C10_OriginalStep]_vars

\* C10 amended: start_countdown on a countdown that is not running and has,
\* after the optional minutes argument is applied, 0 seconds left does not
\* start it (not running, tick timer stopped, 0 seconds, no call); the
\* remaining seconds leave 0 only by reset_countdown, by
\* set_countdown_minutes with a positive value or by start_countdown with a
\* positive minutes argument.
C10_AmendedStep ==
    /\ (lastOp'.op = "start_countdown" /\ ~countdown_running
        /\ EffectiveSeconds(lastOp'.arg) = 0)
       => /\ ~countdown_running' /\ ~countdown_timer'
          /\ countdown_seconds' = 0
          /\ calls' = <<>>
    /\ (countdown_seconds = 0 /\ countdown_seconds' > 0)
       => \/ lastOp'.op = "reset_countdown"
          \/ /\ lastOp'.op \in {"set_countdown_minutes", "start_countdown"}
             /\ lastOp'.arg > 0

C10_StartExhausted == [][C10_AmendedStep]_vars

\* C10 witness: start_countdown() was called on an exhausted countdown
C10_CalledExhausted ==
    /\ lastOp = OpArg("start_countdown", NoArg)
    /\ countdown_seconds = 0
    /\ ~countdown_running /\ ~countdown_timer
    /\ calls = <<>>

----------------------------------------------------------------------------
(* Properties of the layout, checked under SpecWidget *)

\* the handler that just ran called update_geometry (every handler that
\* does so calls it after its last assignment)
GeometryFresh == CountCalls(calls, "update_geometry") > 0

ExpectedTimeMargin == Max2((8 * base_font_size) \div 10, 40)
ExpectedSmallMargin == (2 * base_font_size) \div 10
ExpectedSmallSize == (45 * base_font_size) \div 100

\* C3: whenever paintEvent has just drawn, every drawn line lies within the
\* widget: its text starts at x >= 0, ends at x + w <= width, and its
\* bottom y + h is within the height.
C3_NoClipping ==
    lastOp.op = "paintEvent" =>
        \A i \in DOMAIN painted :
            /\ painted[i].x >= 0
            /\ painted[i].x + painted[i].w <= win_width
            /\ painted[i].y + painted[i].h <= win_height

\* C4: in TimerExclusive mode the width that update_geometry sets is the
\* advance of the timer text plus max(floor(0.8 * size), 40) plus 20.
C4_TimerWidth ==
    (GeometryFresh /\ DisplayMode = "TimerExclusive") =>
        win_width = horizontalAdvance(font_family, base_font_size, get_timer_text)
                    + ExpectedTimeMargin + 20

C6_Height ==
    GeometryFresh =>
        LET main == fm_height(font_family, base_font_size)
            secondary == fm_height(font_family, ExpectedSmallSize)
        IN  win_height =
                IF DisplayMode = "TimerExclusive" THEN main + 8
                ELSE main + (IF show_date THEN 2 + secondary ELSE 0)
                          + (IF show_week THEN 2 + secondary ELSE 0) + 6

\* C6 witness: Clock mode at the largest size, the weekday just hidden and
\* the date still shown
C6_DateOnly ==
    /\ lastOp.op = "set_show_week"
    /\ GeometryFresh
    /\ DisplayMode = "Clock"
    /\ show_date /\ ~show_week
    /\ base_font_size = 250

\* C7: a setter that has just returned has called update_geometry and
\* update, and the widget's size is the size computed from the current
\* configuration and mode.
C7_SettersRecompute ==
    lastOp.op \in Setters =>
        /\ CountCalls(calls, "update_geometry") > 0
        /\ CountCalls(calls, "update") > 0
        /\ <<win_width, win_height>> = update_geometry

----------------------------------------------------------------------------
(* Properties of the TimerManager operations, checked under Spec and, for  *)
(* the rendering of long times, under SpecStopwatch                        *)

\* C11: reset_countdown(minutes) leaves the countdown not running with the
\* tick timer stopped, sets the remaining seconds to minutes * 60 for every
\* supplied minutes >= 0 and to 25 * 60 when minutes is omitted, and emits
\* countdown_updated with the new value.
C11_ResetStep ==
    lastOp'.op = "reset_countdown" =>
        LET secs == IF lastOp'.arg = NoArg THEN 25 * 60 ELSE lastOp'.arg * 60
        IN  /\ ~countdown_running' /\ ~countdown_timer'
            /\ countdown_seconds' = secs
            /\ HasCall(calls', EmitInt("countdown_updated", secs))

C11_ResetCountdown == [][C11_ResetStep]_vars

\* C12: set_countdown_minutes(m) sets the remaining seconds to m * 60
\* whether or not the countdown is running, leaves countdown_running and
\* the tick timer as they are, and emits countdown_updated(m * 60), once,
\* exactly when the countdown is not running at the call.
C12_SetMinutesStep ==
    lastOp'.op = "set_countdown_minutes" =>
        /\ countdown_seconds' = lastOp'.arg * 60
        /\ countdown_running' = countdown_running
        /\ countdown_timer' = countdown_timer
        /\ IF countdown_running
           THEN Emitted(calls') = <<>>
           ELSE Emitted(calls') = <<EmitInt("countdown_updated", lastOp'.arg * 60)>>

C12_SetCountdownMinutes == [][C12_SetMinutesStep]_vars

\* C12 witness: set_countdown_minutes(10) has just returned on a running
\* countdown, without a signal
C12_SetWhileRunning ==
    /\ lastOp = OpArg("set_countdown_minutes", 10)
    /\ countdown_running /\ countdown_timer
    /\ countdown_seconds = 600
    /\ calls = <<>>

C13_TimersScheduled ==
    /\ countdown_timer <=> countdown_running
    /\ stopwatch_timer <=> stopwatch_running

C13_Step ==
    /\ (~countdown_running /\ lastOp'.op \notin {"start_countdown"})
          => /\ lastOp'.op # "on_countdown_tick"
             /\ ~countdown_running'
    /\ (~stopwatch_running /\ lastOp'.op \notin {"start_stopwatch"})
          => /\ lastOp'.op # "on_stopwatch_tick"
             /\ ~stopwatch_running'
             /\ (lastOp'.op # "reset_stopwatch"
                    => stopwatch_seconds' = stopwatch_seconds)
    /\ lastOp'.op \in {"pause_countdown", "reset_countdown"}
          => /\ ~countdown_running' /\ ~countdown_timer'
             /\ HasCall(calls', EmitBool("countdown_state_changed", FALSE))
    /\ lastOp'.op \in {"pause_stopwatch", "reset_stopwatch"}
          => /\ ~stopwatch_running' /\ ~stopwatch_timer'
             /\ HasCall(calls', EmitBool("stopwatch_state_changed", FALSE))

\* C13: in every state each tick timer is scheduled exactly when its
\* running flag is true; while a timer is not running no tick of it occurs
\* and only a start makes it running again; every pause and reset leaves
\* the flag false, the timer stopped and emits state_changed(False).
C13_TimersFollowRunning == []C13_TimersScheduled /\ [][C13_Step]_vars

\* C13 witness: a countdown paused after a tick
C13_PausedMidway ==
    /\ lastOp.op = "pause_countdown"
    /\ countdown_seconds < DEFAULT_COUNTDOWN_MINUTES * 60
    /\ countdown_seconds > 0
    /\ ~countdown_running /\ ~countdown_timer

\* C14: start_stopwatch changes state (running, timer started,
\* stopwatch_state_changed(True)) only if the stopwatch is not running and
\* otherwise does nothing; a stopwatch tick adds exactly 1 and emits
\* stopwatch_updated with the new value; reset_stopwatch leaves running
\* false, elapsed 0 and emits stopwatch_updated(0); nothing else changes
\* the elapsed seconds.
C14_Step ==
    /\ lastOp'.op = "start_stopwatch" =>
          IF stopwatch_running
          THEN /\ UNCHANGED <<timerVars, sizeVars, update_requested>>
               /\ calls' = <<>>
          ELSE /\ stopwatch_running' /\ stopwatch_timer'
               /\ stopwatch_seconds' = stopwatch_seconds
               /\ Emitted(calls') = <<EmitBool("stopwatch_state_changed", TRUE)>>
    /\ lastOp'.op = "on_stopwatch_tick" =>
          /\ stopwatch_seconds' = stopwatch_seconds + 1
          /\ Emitted(calls') = <<EmitInt("stopwatch_updated", stopwatch_seconds + 1)>>
    /\ lastOp'.op = "reset_stopwatch" =>
          /\ ~stopwatch_running' /\ ~stopwatch_timer'
          /\ stopwatch_seconds' = 0
          /\ HasCall(calls', EmitInt("stopwatch_updated", 0))
    /\ stopwatch_seconds' # stopwatch_seconds
          => lastOp'.op \in {"on_stopwatch_tick", "reset_stopwatch"}

C14_Stopwatch == [][C14_Step]_vars

\* C14 witness: start_stopwatch called on a stopwatch that is running and
\* has ticked
C14_StartWhileRunning ==
    /\ lastOp.op = "start_stopwatch"
    /\ calls = <<>>
    /\ stopwatch_running /\ stopwatch_timer
    /\ stopwatch_seconds > 0

\* reading a rendered field back
DigitOf(c) == CHOOSE d \in 0..9 : DigitChar[d + 1] = c
IsDigits(s) == \A i \in DOMAIN s : \E d \in 0..9 : DigitChar[d + 1] = s[i]

RECURSIVE ParseDecimal(_)
ParseDecimal(s) ==
    IF s = <<>> THEN 0
    ELSE 10 * ParseDecimal(SubSeq(s, 1, Len(s) - 1)) + DigitOf(s[Len(s)])

C15_Rendered ==
    LET s == get_stopwatch_time_str
        n == Len(s)
        hh == SubSeq(s, 1, n - 6)
        mm == SubSeq(s, n - 4, n - 3)
        ss == SubSeq(s, n - 1, n)
    IN  /\ n >= 8
        /\ s[n - 5] = ":" /\ s[n - 2] = ":"
        /\ IsDigits(hh) /\ IsDigits(mm) /\ IsDigits(ss)
        /\ Len(hh) = 2 \/ hh[1] # "0"
        /\ ParseDecimal(hh) = stopwatch_seconds \div 3600
        /\ ParseDecimal(mm) = (stopwatch_seconds % 3600) \div 60
        /\ ParseDecimal(ss) = stopwatch_seconds % 60
        /\ stopwatch_seconds = 3661
              => s = <<"0", "1", ":", "0", "1", ":", "0", "1">>

\* C15: every stopwatch tick adds 1 to the elapsed seconds, and with n
\* elapsed seconds the rendered string is HH:MM:SS with HH = n div 3600,
\* MM = (n mod 3600) div 60 and SS = n mod 60, each zero-padded to two
\* digits and the hours growing beyond two; 3661 renders as 01:01:01.
C15_StopwatchString ==
    []C15_Rendered
    /\ [][lastOp'.op = "on_stopwatch_tick"
            => stopwatch_seconds' = stopwatch_seconds + 1]_vars

\* C15 witness: the tick that reaches 3661 elapsed seconds
C15_OneHourOneMinuteOneSecond ==
    /\ lastOp.op = "on_stopwatch_tick"
    /\ stopwatch_seconds = 3661
    /\ stopwatch_running

\* C16: in TimerExclusive mode the timer text is the countdown string with
\* the hourglass marker whenever the countdown is active (running or
\* remaining # 25 * 60), whatever the stopwatch does, and the stopwatch
\* string with the stopwatch marker only when the countdown is inactive
\* and the stopwatch is active.
C16_TimerText ==
    DisplayMode = "TimerExclusive" =>
        LET countdown_active == countdown_running \/ countdown_seconds # 25 * 60
            stopwatch_active == stopwatch_running \/ stopwatch_seconds > 0
        IN  /\ countdown_active
                  => get_timer_text = <<"HOURGLASS", " ">> \o get_countdown_time_str
            /\ ~countdown_active
                  => /\ stopwatch_active
                     /\ get_timer_text = <<"STOPWATCH", " ">> \o get_stopwatch_time_str

\* C16 witness: countdown and stopwatch both running, the stopwatch ahead
C16_BothActive ==
    /\ countdown_running /\ stopwatch_running
    /\ stopwatch_seconds > 0
    /\ countdown_seconds = DEFAULT_COUNTDOWN_MINUTES * 60

----------------------------------------------------------------------------
(* Properties of the theme, the animation and the gradient, checked under  *)
(* SpecTheme and, with raising calls, under SpecFault                      *)

\* C17: a paint in which a call of the gradient branch raises catches the
\* error, sets the flat custom colour as the pen, draws the text and
\* returns; no paint lets an error out of the handler, every paint sets one
\* pen and ends with the drawing of the text, and the single-colour theme
\* always paints with the flat custom colour.
C17_PaintStep ==
    lastOp'.op = "paintEvent" =>
        /\ CountCalls(calls', "raise") = 0
        /\ calls'[Len(calls')] = Call("drawText")
        /\ CountCalls(calls', "setPen.custom_color")
             + CountCalls(calls', "setPen.gradient") = 1
        /\ CountCalls(calls', "except") > 0
              => calls' = <<Call("except"), Call("setPen.custom_color"),
                            Call("drawText")>>
        /\ theme_name = "solid" => CountCalls(calls', "setPen.custom_color") = 1
        /\ ~update_requested'
        /\ UNCHANGED <<timerVars, configVars, sizeVars, theme_name, animation_timer,
                       gradient_offset, pending_starts>>

C17_GradientFallback == [][C17_PaintStep]_vars

\* C17 witness: a paint of a gradient theme with the animation running has
\* just fallen back to the flat colour, the half-built gradient left in the
\* cache
C17_FellBack ==
    /\ lastOp.op = "paintEvent"
    /\ HasCall(calls, Call("except"))
    /\ theme_name = "rainbow"
    /\ animation_timer
    /\ cached_gradient # NoGradient
    /\ cached_gradient.spread = "PadSpread"

\* C18: in every state the animation timer is active only while the theme
\* is not the single-colour theme.
C18_AnimationOnlyForGradient == animation_timer => theme_name # "solid"

\* C19: in every state 0 <= gradient_offset < widget width, also right
\* after a geometry recomputation has shrunk the widget, and the offset is
\* 0 right after set_theme.
C19_OffsetWithinWidth ==
    /\ gradient_offset >= 0
    /\ gradient_offset < win_width
    /\ lastOp.op = "set_theme" => gradient_offset = 0

----------------------------------------------------------------------------
(* Properties of the two counters together, checked under Spec *)

CountdownOps == {"start_countdown", "pause_countdown", "reset_countdown",
                 "set_countdown_minutes", "on_countdown_tick"}
StopwatchOps == {"start_stopwatch", "pause_stopwatch", "reset_stopwatch",
                 "on_stopwatch_tick"}

\* C25: every countdown operation (start, pause, reset, set minutes, tick)
\* leaves the stopwatch's seconds, running flag and tick timer unchanged,
\* and every stopwatch operation (start, pause, reset, tick) leaves the
\* countdown's seconds, running flag and tick timer unchanged.
C25_Step ==
    /\ lastOp'.op \in CountdownOps => stopwatchVars' = stopwatchVars
    /\ lastOp'.op \in StopwatchOps => countdownVars' = countdownVars

C25_Independent == [][C25_Step]_vars

\* C25 witness: both counters running at once, each having ticked, the
\* stopwatch paused and started again while the countdown ran on
C25_BothRunning ==
    /\ countdown_running /\ countdown_timer
    /\ stopwatch_running /\ stopwatch_timer
    /\ countdown_seconds = DEFAULT_COUNTDOWN_MINUTES * 60 - 1
    /\ stopwatch_seconds = 1
    /\ lastOp.op = "start_stopwatch"

\* C27: the remaining seconds and the elapsed seconds are never negative
\* (minutes arguments >= 0), and a tick that finds 0 seconds left pauses the
\* countdown (not running, tick timer stopped) with the seconds still 0 and
\* without countdown_updated or countdown_finished.
C27_NonNegative == countdown_seconds >= 0 /\ stopwatch_seconds >= 0

C27_TickAtZeroStep ==
    (lastOp'.op = "on_countdown_tick" /\ countdown_seconds = 0)
    => /\ countdown_seconds' = 0
       /\ ~countdown_running' /\ ~countdown_timer'
       /\ CountCalls(calls', "countdown_finished") = 0
       /\ CountCalls(calls', "countdown_updated") = 0
       /\ HasCall(calls', EmitBool("countdown_state_changed", FALSE))

C27_Counters == []C27_NonNegative /\ [][C27_TickAtZeroStep]_vars

\* C27 witness: a tick found 0 seconds left and paused the countdown
C27_TickedAtZero ==
    /\ lastOp.op = "on_countdown_tick"
    /\ countdown_seconds = 0
    /\ ~countdown_running /\ ~countdown_timer
    /\ CountCalls(calls, "countdown_finished") = 0
    /\ HasCall(calls, Call("countdown_timer.stop"))

\* the position of the first call c of a log, 0 when it has none
FirstCall(log, c) ==
    IF HasCall(log, c) THEN CHOOSE i \in DOMAIN log :
                                /\ log[i] = c
                                /\ \A j \in 1..(i - 1) : log[j] # c
    ELSE 0

\* C28: the tick that takes the countdown from 1 to 0 emits, in this order
\* and nothing else, countdown_updated(0), countdown_finished and
\* countdown_state_changed(False); the tick timer is stopped after
\* countdown_finished was emitted, so a handler of countdown_finished runs
\* with 0 seconds left and the countdown not yet paused.
C28_Step ==
    (lastOp'.op = "on_countdown_tick" /\ countdown_seconds = 1)
    => /\ Emitted(calls') = <<EmitInt("countdown_updated", 0),
                              EmitNone("countdown_finished"),
                              EmitBool("countdown_state_changed", FALSE)>>
       /\ FirstCall(calls', EmitNone("countdown_finished"))
            < FirstCall(calls', Call("countdown_timer.stop"))
       /\ FirstCall(calls', EmitInt("countdown_updated", 0))
            < FirstCall(calls', EmitNone("countdown_finished"))
       /\ CountCalls(calls', "countdown_timer.stop") = 1
       /\ ~countdown_running' /\ ~countdown_timer'

C28_EmissionOrder == [][C28_Step]_vars

\* C28 witness: the last tick of a countdown has run while the stopwatch
\* was running
C28_LastTick ==
    /\ lastOp.op = "on_countdown_tick"
    /\ countdown_seconds = 0
    /\ Emitted(calls) = <<EmitInt("countdown_updated", 0),
                          EmitNone("countdown_finished"),
                          EmitBool("countdown_state_changed", FALSE)>>
    /\ stopwatch_running

CountdownText == <<"HOURGLASS", " ">> \o get_countdown_time_str

\* C29 as stated: pausing a running countdown that has seconds left leaves
\* the display in TimerExclusive mode with the countdown string as text.
C29_OriginalStep ==
    (lastOp'.op = "pause_countdown" /\ countdown_running /\ countdown_seconds > 0)
    => /\ DisplayMode' = "TimerExclusive"
       /\ get_timer_text' = CountdownText'

C29_Original == [][C29_OriginalStep]_vars

\* C29 amended: a countdown that is not running and has seconds left, other
\* than exactly 25*60, is shown: the display mode is TimerExclusive and the
\* text is the countdown string, whatever the stopwatch does.
C29_PausedShown ==
    (~countdown_running /\ countdown_seconds > 0
     /\ countdown_seconds # DEFAULT_COUNTDOWN_MINUTES * 60)
    => /\ DisplayMode = "TimerExclusive"
       /\ get_timer_text = CountdownText

\* C29 witness: a countdown paused with 59 seconds left, the stopwatch
\* stopped at 0
C29_PausedMidway ==
    /\ lastOp.op = "pause_countdown"
    /\ ~countdown_running
    /\ countdown_seconds = 59
    /\ ~stopwatch_running /\ stopwatch_seconds = 0

----------------------------------------------------------------------------
(* Termination of the countdown, checked under SpecCountdown *)

C30_Done == countdown_seconds = 0 /\ ~countdown_running /\ ~countdown_timer

C30_ShownDone ==
    /\ DisplayMode = "TimerExclusive"
    /\ get_timer_text = <<"HOURGLASS", " ", "0", "0", ":", "0", "0">>

\* C30 as stated: a running countdown eventually has 0 seconds left and is
\* not running, its tick timer stopped; from then on the display is
\* TimerExclusive with 00:00 and this lasts until reset_countdown or
\* set_countdown_minutes is called.
C30_OriginalStep ==
    C30_Done => \/ lastOp'.op \in {"reset_countdown", "set_countdown_minutes"}
                \/ C30_Done'

C30_Original ==
    /\ countdown_running ~> C30_Done
    /\ [](C30_Done => C30_ShownDone)
    /\ [][C30_OriginalStep]_vars

\* C30 amended: the same, the exhausted state lasting until reset_countdown,
\* set_countdown_minutes or start_countdown with a minutes argument is
\* called.
C30_AmendedStep ==
    C30_Done => \/ lastOp'.op \in {"reset_countdown", "set_countdown_minutes"}
                \/ (lastOp'.op = "start_countdown" /\ lastOp'.arg # NoArg)
                \/ C30_Done'

C30_Terminates ==
    /\ countdown_running ~> C30_Done
    /\ [](C30_Done => C30_ShownDone)
    /\ [][C30_AmendedStep]_vars

\* C30 witness: a countdown of one minute has just run to its end by its
\* ticks, next to a paused stopwatch that has elapsed seconds
C30_RanOut ==
    /\ C30_Done
    /\ C30_ShownDone
    /\ stopwatch_seconds > 0 /\ ~stopwatch_running
    /\ lastOp.op = "on_countdown_tick"
    /\ HasCall(calls, EmitNone("countdown_finished"))

----------------------------------------------------------------------------
(* Properties of the theme lookup and the gradient cache, checked under    *)
(* SpecTheme                                                               *)

FlatPaint ==
    /\ HasCall(calls, Call("setPen.custom_color"))
    /\ ~HasCall(calls, Call("setPen.gradient"))

\* C24: with a theme name that is no key of THEMES the lookup gives the
\* stops of the solid theme, the animation timer is not running and a paint
\* sets the flat custom colour as pen; with the solid theme a paint always
\* sets the flat custom colour.
C24_UnknownAsSolid ==
    /\ theme_name \notin DOMAIN THEMES
         => /\ get_gradient_stops(theme_name) = THEMES[DEFAULT_THEME]
            /\ ~animation_timer
            /\ lastOp.op = "paintEvent" => FlatPaint
    /\ (theme_name = DEFAULT_THEME /\ lastOp.op = "paintEvent") => FlatPaint

----------------------------------------------------------------------------
(* Properties of the clock surface, checked under SpecSurface and SpecDrag *)

\* C21: the base font size is within 20..250 and the opacity within 0..255
\* in every state, whatever integers the store held at construction and
\* whatever arguments the two setters were given.
C21_InRange ==
    /\ 20 <= base_font_size /\ base_font_size <= 250
    /\ 0 <= font_opacity /\ font_opacity <= 255

MouseOps == {"mousePressEvent", "mouseMoveEvent", "mouseReleaseEvent"}

\* C23: a mouse event moves the window only if it is a move with the left
\* button alone held, the position not fixed and a drag begun, and then to
\* the pointer's position minus the captured offset; such a move does move
\* it; while the position is fixed no mouse event moves it; a drag begins
\* only by a press of the left button while the position is not fixed, with
\* the offset of the pointer from the window's origin; every release clears
\* the drag and stores the window's position as pos_x, pos_y.
C23_Step ==
    LET op == lastOp'.op
        dragging == lastOp'.arg = LeftButton /\ ~is_fixed /\ drag_position # NoDrag
    IN  /\ (op \in MouseOps /\ is_fixed) => window_pos' = window_pos
        /\ window_pos' # window_pos
             => /\ op = "mouseMoveEvent" /\ dragging
                /\ window_pos' = Minus(global_pos', drag_position)
        /\ (op = "mouseMoveEvent" /\ dragging)
             => window_pos' = Minus(global_pos', drag_position)
        /\ (drag_position' # drag_position /\ drag_position' # NoDrag)
             => /\ op = "mousePressEvent" /\ lastOp'.arg = LeftButton
                /\ ~is_fixed
                /\ drag_position' = Minus(global_pos', window_pos)
        /\ op = "mouseReleaseEvent"
             => /\ drag_position' = NoDrag
                /\ qsettings'["pos_x"] = IntV(window_pos'[1])
                /\ qsettings'["pos_y"] = IntV(window_pos'[2])

C23_Drag == [][C23_Step]_vars

\* C23 witness: a move with the left button held arrived while the position
\* was fixed, the drag begun before, and the window is where it was dragged
\* to earlier
C23_MoveWhileFixed ==
    /\ lastOp = OpArg("mouseMoveEvent", LeftButton)
    /\ is_fixed
    /\ drag_position # NoDrag
    /\ window_pos # <<DEFAULT_POS, DEFAULT_POS>>
    /\ global_pos # <<window_pos[1] + drag_position[1],
                      window_pos[2] + drag_position[2]>>

----------------------------------------------------------------------------
(* Properties of SettingsManager.get, checked under SpecSettings *)

\* the raw values that can be taken as a value of the default's type
Coercible(raw, default) ==
    CASE default.t = "bool" ->
            \/ raw.t \in {"bool", "int"}
            \/ raw.t = "str" /\ lower(raw.s) \in {<<"t", "r", "u", "e">>,
                                                  <<"f", "a", "l", "s", "e">>}
      [] default.t = "int" -> py_int(raw).ok
      [] default.t = "str" -> raw.t # "none"
      [] default.t = "color" ->
            \/ raw.t = "color" /\ raw.b
            \/ raw.t = "str" /\ QColor_str(raw.s).b
      [] OTHER -> FALSE

\* C22: what get has just returned is of the type of the default; it is the
\* stored value if that is of the default's type, and the default if
\* nothing is stored or the stored value cannot be taken as a value of that
\* type (a text that is no number for an int default, a text that is
\* neither true nor false for a bool default, a text that names no colour
\* for a colour default).
C22_TypeSafe ==
    lastOp.op = "get"
    => LET raw == qsettings[got.key]
           default == DefaultOf(got.key)
       IN  /\ got.value.t = default.t
           /\ raw = Absent => got.value = default
           /\ (raw.t = default.t /\ Coercible(raw, default)) => got.value = raw
           /\ (raw # Absent /\ ~Coercible(raw, default)) => got.value = default

============================================================================
